---- MODULE Spec2Model ----
(***************************************************************************)
(* Model of aws-iot-greengrass-for-beginners/alert/main.py: the main flow  *)
(* (arg_check, discover_gg_host, subscribe, wait loop), the SIGINT handler *)
(* (exit_handler / exit_sample) that runs on the main thread, and the      *)
(* connection callbacks (interrupted, resumed, resubscribe complete) that  *)
(* the transport runs on its event-loop thread.                            *)
(***************************************************************************)
EXTENDS Integers, Sequences, FiniteSets, TLC

\* ---------------------------------------------------------------- bounds
MaxNodes == 6       \* groups + cores + connectivity infos in a discovery response
MaxResume == 1      \* resumed notifications the transport delivers in one run
MaxSigint == 1      \* interrupt signals delivered in one run
MaxAck == 2         \* (topic, qos) pairs in one resubscribe result

\* ------------------------------------------------------------- constants
None == 0                        \* main.py:28  mqtt_connection = None
ExitOk == 0                      \* main.py:233 sys.exit(0)
ExitError == 1                   \* sys.exit(<str>) and an uncaught exception

\* What the transport answers to a connect to one connectivity info, when it
\* answers: it completes the connect future or fails it.
Behaviours == {"ok", "err"}
ReturnCodes == {"ACCEPTED", "REFUSED"}
QosValues == {"granted", "none"}
Topic == "alert/#"
CertNames == {"private.key", "cert.pem", "AmazonRootCA1.pem"}

\* ------------------------------------------------- discovery responses
\* A response is a sequence of groups; a group has `cas` certificate
\* authorities and a sequence of cores; a core is the sequence of its
\* connectivity infos, each given by the transport's answer for it.
\* CoreLists(t): the sequences of cores that have t cores and connectivity
\* infos in all; GroupLists(t): the sequences of groups of t nodes in all.
RECURSIVE CoreLists(_)
CoreLists(t) ==
  IF t = 0 THEN {<<>>}
  ELSE UNION {{<<c>> \o rest : c \in [1..(s - 1) -> Behaviours], rest \in CoreLists(t - s)} :
                s \in 1..t}

\* certificate_authorities is read in the innermost loop only (line 136):
\* how many a group without connectivity info lists makes no difference,
\* and such a group is given one.
CasOf(cs) == IF \E c \in 1..Len(cs) : cs[c] # <<>> THEN 0..1 ELSE {1}

GroupsOf(t) ==
  UNION {{[cas |-> a, cores |-> cs] : a \in CasOf(cs)} : cs \in CoreLists(t - 1)}

RECURSIVE GroupLists(_)
GroupLists(t) ==
  IF t = 0 THEN {<<>>}
  ELSE UNION {{<<g>> \o rest : g \in GroupsOf(s), rest \in GroupLists(t - s)} :
                s \in 1..t}

Responses == UNION {GroupLists(t) : t \in 0..MaxNodes}

\* The candidates of a response in the order of the three nested loops.
RECURSIVE CoreCands(_, _, _, _)
CoreCands(r, g, c, k) ==
  IF k > Len(r[g].cores[c]) THEN <<>>
  ELSE <<(<<g, c, k>>)>> \o CoreCands(r, g, c, k + 1)

RECURSIVE GroupCands(_, _, _)
GroupCands(r, g, c) ==
  IF c > Len(r[g].cores) THEN <<>>
  ELSE CoreCands(r, g, c, 1) \o GroupCands(r, g, c + 1)

RECURSIVE RespCands(_, _)
RespCands(r, g) ==
  IF g > Len(r) THEN <<>> ELSE GroupCands(r, g, 1) \o RespCands(r, g + 1)

Candidates(r) == RespCands(r, 1)

BehaviourOf(r, cand) == r[cand[1]].cores[cand[2]][cand[3]]

\* ------------------------------------------------------------------ state
VARIABLES
  pc,               \* where the main thread is
  exitCode,         \* {} while the process runs, {code} once it has exited
  exitArg,          \* what ended the process: the argument of sys.exit, or the exception
  session,          \* what discover_gg_host has returned: None, or the connection
  mqtt_connection,  \* the module global: None or the connection (its attempt number)
  resp,             \* discover_response
  pos,              \* <<group, core, connectivity>> the three loops stand at
  attempts,         \* one record per iteration of the loop body, in order
  held,             \* topics the connection holds a subscription for
  resumes,          \* resumed notifications delivered
  resumed,          \* <<return_code, session_present>> of the latest of them
  sigints,          \* interrupt signals delivered
  subscribeCalls,   \* calls of mqtt_connection.subscribe
  resubscribing,    \* per resubscribe future not yet done: the topics it re-issues
  fatalCalls,       \* sys.exit calls made by the latest on_resubscribe_complete
  certs,            \* the names find_cert_file finds a file for in ./certs
  discoveries,      \* calls of discovery_client.discover
  builds,           \* the arguments of each mtls_from_path call, in order
  subscribed,       \* the arguments of each mqtt_connection.subscribe call, in order
  disconnectCalls,  \* the connections disconnect() was called on
  interruptLog,     \* what the latest on_connection_interupted came to
  loopThread        \* the transport's event-loop thread: "idle" or "blocked" in a callback

vars == <<pc, exitCode, exitArg, session, mqtt_connection, resp, pos, attempts, held,
          subscribeCalls, resumes, resumed, sigints, resubscribing, fatalCalls,
          certs, discoveries, builds, subscribed, disconnectCalls, interruptLog,
          loopThread>>

mainVars == <<pc, exitCode, exitArg, session, mqtt_connection, resp, pos>>
subVars == <<held, subscribeCalls, resumes, resumed>>
cbVars == <<sigints, resubscribing, fatalCalls>>
ioVars == <<certs, discoveries, builds, subscribed, disconnectCalls, interruptLog,
            loopThread>>

Exhausted == <<0, 0, 0>>
LoopStart == <<1, 1, 0>>

\* The next connectivity info the nested for loops yield after position
\* <<g, c, k>>: the next of the core, else the first of the next core that
\* has one, else of the next group; Exhausted when the loops end.
\* As Advance, but the end of a core's connectivity list ends the group.
RECURSIVE AdvanceSkipsCores(_, _, _, _)
AdvanceSkipsCores(r, g, c, k) ==
  IF g > Len(r) THEN Exhausted
  ELSE IF c > Len(r[g].cores) THEN AdvanceSkipsCores(r, g + 1, 1, 0)
  ELSE IF k + 1 > Len(r[g].cores[c]) THEN AdvanceSkipsCores(r, g + 1, 1, 0)
  ELSE <<g, c, k + 1>>

RECURSIVE Advance(_, _, _, _)
Advance(r, g, c, k) ==
  IF g > Len(r) THEN Exhausted
  ELSE IF c > Len(r[g].cores) THEN Advance(r, g + 1, 1, 0)
  ELSE IF k + 1 > Len(r[g].cores[c]) THEN Advance(r, g, c + 1, 0)
  ELSE <<g, c, k + 1>>

Cur == Len(attempts)

SetAttempt(i, st, res, why) ==
  [attempts EXCEPT ![i] = [cand |-> @.cand, st |-> st, res |-> res, why |-> why]]

\* What ends the process: sys.exit('All connection attempts failed') carries
\* that one string and no failure reasons (they were printed); an exception
\* nothing catches (that of the handler, of subscribe, of discovery, of
\* find_cert_file); sys.exit(0).
AllFailed == [msg |-> "All connection attempts failed", failures |-> <<>>]
Uncaught == [msg |-> "uncaught exception", failures |-> <<>>]
KeyAbort == [msg |-> "0", failures |-> <<>>]
DiscoveryFailed == [msg |-> "discovery failed", failures |-> <<>>]

\* find_cert_file: Exception("%s not found." % cert_prefix)
NotFound(cert_prefix) ==
  [msg |-> CASE cert_prefix = "private.key" -> "private.key not found."
             [] cert_prefix = "cert.pem" -> "cert.pem not found."
             [] OTHER -> "AmazonRootCA1.pem not found.",
   failures |-> <<>>]
NotExited == [msg |-> "", failures |-> <<>>]

\* The exit status of a process ended by `arg`: 0 for sys.exit(0), 1 for
\* sys.exit(<str>) and for an uncaught exception.
StatusOf(arg) == IF arg = KeyAbort THEN ExitOk ELSE ExitError

\* The main thread ends the process.
Exit(arg) == pc' = "exited" /\ exitCode' = {StatusOf(arg)} /\ exitArg' = arg
Goes(to) == pc' = to /\ UNCHANGED <<exitCode, exitArg>>

Init ==
  /\ pc = "arg_check"
  /\ exitCode = {}
  /\ exitArg = NotExited
  /\ session = None
  /\ mqtt_connection = None
  /\ resp = <<>>
  /\ pos = LoopStart
  /\ attempts = <<>>
  /\ held = {}
  /\ subscribeCalls = 0
  /\ resumes = 0
  /\ resumed = <<>>
  /\ sigints = 0
  /\ resubscribing = <<>>
  /\ fatalCalls = 0
  /\ certs \in SUBSET CertNames
  /\ discoveries = 0
  /\ builds = <<>>
  /\ subscribed = <<>>
  /\ disconnectCalls = {}
  /\ interruptLog = "none"
  /\ loopThread = "idle"

\* ------------------------------------------------------------ main thread
\* The three find_cert_file calls of arg_check, in their order.
Lookups == <<"private.key", "cert.pem", "AmazonRootCA1.pem">>

\* The first of them that finds no file.
FirstMissing == Lookups[CHOOSE n \in 1..Len(Lookups) :
                          /\ Lookups[n] \notin certs
                          /\ \A m \in 1..(n - 1) : Lookups[m] \in certs]

\* As ArgCheck, but the root CA is not looked up.
ArgCheckSkipsRootCA ==
  /\ pc = "arg_check"
  /\ IF {Lookups[1], Lookups[2]} \subseteq certs
     THEN Goes("discover")
     ELSE Exit(NotFound(FirstMissing))
  /\ UNCHANGED <<session, mqtt_connection, resp, pos, attempts, subVars, cbVars>>
  /\ UNCHANGED ioVars

\* arg_check: find_cert_file raises when no file name in ./certs contains
\* the name looked up, and nothing catches it; the later lookups and
\* device_main's call of discover_gg_host are not reached.
ArgCheck ==
  /\ pc = "arg_check"
  /\ IF \A n \in 1..Len(Lookups) : Lookups[n] \in certs
     THEN Goes("discover")
     ELSE Exit(NotFound(FirstMissing))
  /\ UNCHANGED <<session, mqtt_connection, resp, pos, attempts, subVars, cbVars>>
  /\ UNCHANGED ioVars

\* As Discover, but a failed discovery is tried once more.
DiscoverRetries ==
  /\ pc = "discover"
  /\ discoveries' = discoveries + 1
  /\ \/ /\ resp' \in Responses
        /\ Goes("loop")
     \/ /\ IF discoveries = 0 THEN Goes("discover") ELSE Exit(DiscoveryFailed)
        /\ UNCHANGED resp
  /\ UNCHANGED <<session, mqtt_connection, pos, attempts, subVars, cbVars>>
  /\ UNCHANGED <<certs, builds, subscribed, disconnectCalls, interruptLog, loopThread>>

\* discover_gg_host up to the loops: one discover request;
\* resp_future.result() returns the response or raises, and nothing catches
\* that.
Discover ==
  /\ pc = "discover"
  /\ discoveries' = discoveries + 1
  /\ \/ /\ resp' \in Responses
        /\ Goes("loop")
     \/ /\ Exit(DiscoveryFailed)
        /\ UNCHANGED resp
  /\ UNCHANGED <<session, mqtt_connection, pos, attempts, subVars, cbVars>>
  /\ UNCHANGED <<certs, builds, subscribed, disconnectCalls, interruptLog, loopThread>>

\* As LoopNext, but sys.exit is only reached after a failed attempt: with
\* nothing to try the function returns None and device_main fails on it.
LoopNextExitsAfterFailure ==
  /\ pc = "loop"
  /\ LET n == Advance(resp, pos[1], pos[2], pos[3]) IN
       IF n = Exhausted
       THEN /\ IF attempts = <<>> THEN Exit(Uncaught) ELSE Exit(AllFailed)
            /\ UNCHANGED <<pos, attempts>>
       ELSE /\ pos' = n
            /\ attempts' = Append(attempts,
                 [cand |-> n, st |-> "none", res |-> "waiting", why |-> "none"])
            /\ Goes("try")
  /\ UNCHANGED <<session, mqtt_connection, resp, subVars, cbVars>>
  /\ UNCHANGED ioVars

\* As LoopNext, but a core's connectivity infos are taken last first.
LoopNextReversed ==
  /\ pc = "loop"
  /\ LET n == Advance(resp, pos[1], pos[2], pos[3]) IN
       IF n = Exhausted
       THEN Exit(AllFailed) /\ UNCHANGED <<pos, attempts>>
       ELSE /\ pos' = n
            /\ attempts' = Append(attempts,
                 [cand |-> <<n[1], n[2], Len(resp[n[1]].cores[n[2]]) + 1 - n[3]>>,
                  st |-> "none", res |-> "waiting", why |-> "none"])
            /\ Goes("try")
  /\ UNCHANGED <<session, mqtt_connection, resp, subVars, cbVars>>
  /\ UNCHANGED ioVars

\* The for statements: take the next connectivity info and enter the try
\* block, or leave the loops and sys.exit('All connection attempts failed').
LoopNext ==
  /\ pc = "loop"
  /\ LET n == Advance(resp, pos[1], pos[2], pos[3]) IN
       IF n = Exhausted
       THEN Exit(AllFailed) /\ UNCHANGED <<pos, attempts>>
       ELSE /\ pos' = n
            /\ attempts' = Append(attempts,
                 [cand |-> n, st |-> "none", res |-> "waiting", why |-> "none"])
            /\ Goes("try")
  /\ UNCHANGED <<session, mqtt_connection, resp, subVars, cbVars>>
  /\ UNCHANGED ioVars

\* The keyword arguments of mtls_from_path that choose trust and identity:
\* the first certificate authority of group g (certificate_authorities[0]),
\* and the globals arg_check has set.
BuildArgs(g) ==
  [attempt |-> Cur, ca |-> <<g, 1>>, cert_filepath |-> Lookups[2],
   pri_key_filepath |-> Lookups[1], client_id |-> "thing_name"]

\* As BuildAndConnect, but the IndexError of a group without a certificate
\* authority is not caught.
BuildAndConnectEscapes ==
  /\ pc = "try"
  /\ IF resp[pos[1]].cas = 0
     THEN /\ attempts' = SetAttempt(Cur, "none", "failed", "builder")
          /\ Exit(Uncaught)
          /\ UNCHANGED builds
     ELSE /\ \E st \in {"pending", "silent"} :
               attempts' = SetAttempt(Cur, st, "waiting", "none")
          /\ builds' = Append(builds, BuildArgs(pos[1]))
          /\ Goes("connecting")
  /\ UNCHANGED <<session, mqtt_connection, resp, pos, subVars, cbVars>>
  /\ UNCHANGED <<certs, discoveries, subscribed, disconnectCalls, interruptLog, loopThread>>

\* As BuildAndConnect, but the certificate authority is taken from the
\* first group of the response.
BuildAndConnectFirstGroupCA ==
  /\ pc = "try"
  /\ IF resp[1].cas = 0
     THEN /\ attempts' = SetAttempt(Cur, "none", "failed", "builder")
          /\ Goes("loop")
          /\ UNCHANGED builds
     ELSE /\ \E st \in {"pending", "silent"} :
               attempts' = SetAttempt(Cur, st, "waiting", "none")
          /\ builds' = Append(builds, BuildArgs(1))
          /\ Goes("connecting")
  /\ UNCHANGED <<session, mqtt_connection, resp, pos, subVars, cbVars>>
  /\ UNCHANGED <<certs, discoveries, subscribed, disconnectCalls, interruptLog, loopThread>>

\* mtls_from_path and connection.connect(): certificate_authorities[0]
\* raises IndexError for a group without one, before the builder is called,
\* and the except clause catches it; otherwise the connection is built and
\* the connect is started.  No timeout is given to the builder or to
\* connect(): the transport is going to answer the connect ("pending") or
\* it never does ("silent").
BuildAndConnect ==
  /\ pc = "try"
  /\ IF resp[pos[1]].cas = 0
     THEN /\ attempts' = SetAttempt(Cur, "none", "failed", "builder")
          /\ Goes("loop")
          /\ UNCHANGED builds
     ELSE /\ \E st \in {"pending", "silent"} :
               attempts' = SetAttempt(Cur, st, "waiting", "none")
          /\ builds' = Append(builds, BuildArgs(pos[1]))
          /\ Goes("connecting")
  /\ UNCHANGED <<session, mqtt_connection, resp, pos, subVars, cbVars>>
  /\ UNCHANGED <<certs, discoveries, subscribed, disconnectCalls, interruptLog, loopThread>>

\* As AwaitResult, but a completed connect does not end the loops.
AwaitResultKeepsTrying ==
  /\ pc = "connecting"
  /\ attempts[Cur].st = "pending"
  /\ IF BehaviourOf(resp, attempts[Cur].cand) = "ok"
     THEN attempts' = SetAttempt(Cur, "live", "ok", "none") /\ Goes("loop")
     ELSE attempts' = SetAttempt(Cur, "failed", "failed", "transport") /\ Goes("loop")
  /\ UNCHANGED <<session, mqtt_connection, resp, pos, subVars, cbVars>>
  /\ UNCHANGED ioVars

\* As AwaitResult, but only a completed connect ends the wait.
AwaitResultWaitsForSuccess ==
  /\ pc = "connecting"
  /\ attempts[Cur].st = "pending"
  /\ BehaviourOf(resp, attempts[Cur].cand) = "ok"
  /\ attempts' = SetAttempt(Cur, "live", "ok", "none")
  /\ Goes("connected")
  /\ UNCHANGED <<session, mqtt_connection, resp, pos, subVars, cbVars>>
  /\ UNCHANGED ioVars

\* connect_future.result(): blocks until the transport answers the connect;
\* it returns when the connect is completed, and raises when it failed,
\* which the except clause catches ('Connection failed', continue).
AwaitResult ==
  /\ pc = "connecting"
  /\ attempts[Cur].st = "pending"
  /\ IF BehaviourOf(resp, attempts[Cur].cand) = "ok"
     THEN attempts' = SetAttempt(Cur, "live", "ok", "none") /\ Goes("connected")
     ELSE attempts' = SetAttempt(Cur, "failed", "failed", "transport") /\ Goes("loop")
  /\ UNCHANGED <<session, mqtt_connection, resp, pos, subVars, cbVars>>
  /\ UNCHANGED ioVars

\* print('Connected!'); return connection
Return ==
  /\ pc = "connected"
  /\ session' = Cur
  /\ Goes("returned")
  /\ UNCHANGED <<mqtt_connection, resp, pos, attempts, subVars, cbVars>>
  /\ UNCHANGED ioVars

\* As Subscribe, but at QoS.AT_LEAST_ONCE.
SubscribeAtLeastOnce ==
  /\ pc = "returned"
  /\ mqtt_connection' = session
  /\ held' = held \cup {Topic}
  /\ subscribeCalls' = subscribeCalls + 1
  /\ subscribed' = Append(subscribed,
       [on |-> session, topic |-> Topic, qos |-> "AT_LEAST_ONCE"])
  /\ Goes("subscribing")
  /\ UNCHANGED <<session, resp, pos, attempts, resumes, resumed, cbVars>>
  /\ UNCHANGED <<certs, discoveries, builds, disconnectCalls, interruptLog, loopThread>>

\* device_main: mqtt_connection = discover_gg_host();
\* mqtt_connection.subscribe("alert/#", QoS.AT_MOST_ONCE, on_message_received)
Subscribe ==
  /\ pc = "returned"
  /\ mqtt_connection' = session
  /\ held' = held \cup {Topic}
  /\ subscribeCalls' = subscribeCalls + 1
  /\ subscribed' = Append(subscribed,
       [on |-> mqtt_connection', topic |-> Topic, qos |-> "AT_MOST_ONCE"])
  /\ Goes("subscribing")
  /\ UNCHANGED <<session, resp, pos, attempts, resumes, resumed, cbVars>>
  /\ UNCHANGED <<certs, discoveries, builds, disconnectCalls, interruptLog, loopThread>>

\* subscribe_future.result(): returns, and the main thread sleeps in
\* `while True`, or raises, which nothing catches.
SubscribeResult ==
  /\ pc = "subscribing"
  /\ \/ Goes("wait")
     \/ Exit(Uncaught)
  /\ UNCHANGED <<session, mqtt_connection, resp, pos, attempts, subVars, cbVars>>
  /\ UNCHANGED ioVars

\* ----------------------------------------------------------------- SIGINT
\* exit_handler -> exit_sample(" Key abort"), run on the main thread at the
\* point it has reached.  `if not mqtt_connection` is true exactly while the
\* global is None, and then mqtt_connection.disconnect() raises
\* AttributeError: inside the try block `except Exception` catches it and
\* the loop continues with the next candidate, elsewhere it ends the
\* process.  With a connection in the global the guard is false, nothing is
\* disconnected and sys.exit(0) ends the process.
InTry == pc \in {"try", "connecting", "connected"}

\* What exit_sample calls disconnect() on: the value of the global, when
\* `not mqtt_connection` holds, which it does for None only.
DisconnectTargets == IF mqtt_connection = None THEN {mqtt_connection} ELSE {}

Sigint ==
  /\ pc # "exited"
  /\ sigints < MaxSigint
  /\ sigints' = sigints + 1
  /\ disconnectCalls' = disconnectCalls \cup (DisconnectTargets \ {None})
  /\ IF None \in DisconnectTargets
     THEN IF InTry
          THEN /\ attempts' = SetAttempt(Cur, attempts[Cur].st, "failed", "handler")
               /\ Goes("loop")
          ELSE Exit(Uncaught) /\ UNCHANGED attempts
     ELSE Exit(KeyAbort) /\ UNCHANGED attempts
  /\ UNCHANGED <<session, mqtt_connection, resp, pos, subVars, resubscribing, fatalCalls>>
  /\ UNCHANGED <<certs, discoveries, builds, subscribed, interruptLog, loopThread>>

\* ---------------------------------------------------- transport, callbacks
\* The transport reports on a connection the program still holds: the one
\* of the latest iteration, unless that iteration has ended in the except
\* clause (the next iteration rebinds `connection`).
Holds(i) == i = Cur /\ attempts[i].res # "failed"

\* '<format>' % error for a format string of `specs` conversion specifiers
\* and `args` arguments: the string, or TypeError ("not all arguments
\* converted during string formatting") when the numbers differ.
PercentFormat(specs, args) == IF specs = args THEN "logged" ELSE "TypeError"

\* on_connection_interupted, on the event-loop thread:
\* logger.info('connection interrupted with error {}' % error) applies %
\* to a format without a conversion specifier and the one error, before
\* logger.info is called.
OnConnectionInterrupted(i) ==
  /\ pc # "exited"
  /\ loopThread = "idle"
  /\ Holds(i)
  /\ attempts[i].st = "live"
  /\ attempts' = SetAttempt(i, "interrupted", attempts[i].res, attempts[i].why)
  /\ resumes < MaxResume
  /\ interruptLog' = PercentFormat(0, 1)
  /\ UNCHANGED <<mainVars, subVars, cbVars>>
  /\ UNCHANGED <<certs, discoveries, builds, subscribed, disconnectCalls, loopThread>>

\* The subscriptions connection i holds: subscribe is only ever called on
\* the connection in the global.
HeldBy(i) == IF mqtt_connection = i THEN held ELSE {}

\* As OnConnectionResumed, but session_present is not looked at.
OnConnectionResumedAnySession(i, return_code, session_present) ==
  /\ pc # "exited"
  /\ loopThread = "idle"
  /\ Holds(i)
  /\ attempts[i].st = "interrupted"
  /\ attempts' = SetAttempt(i, "live", attempts[i].res, attempts[i].why)
  /\ IF return_code = "ACCEPTED"
     THEN resubscribing' = Append(resubscribing, HeldBy(i))
     ELSE UNCHANGED resubscribing
  /\ resumes' = resumes + 1
  /\ resumed' = <<return_code, session_present>>
  /\ UNCHANGED <<mainVars, held, subscribeCalls, sigints, fatalCalls>>
  /\ UNCHANGED ioVars

\* As OnConnectionResumed, but the resubscribe re-issues no topic.
OnConnectionResumedNoTopics(i, return_code, session_present) ==
  /\ pc # "exited"
  /\ loopThread = "idle"
  /\ Holds(i)
  /\ attempts[i].st = "interrupted"
  /\ attempts' = SetAttempt(i, "live", attempts[i].res, attempts[i].why)
  /\ IF return_code = "ACCEPTED" /\ ~session_present
     THEN resubscribing' = Append(resubscribing, {})
     ELSE UNCHANGED resubscribing
  /\ resumes' = resumes + 1
  /\ resumed' = <<return_code, session_present>>
  /\ UNCHANGED <<mainVars, held, subscribeCalls, sigints, fatalCalls>>
  /\ UNCHANGED ioVars

\* As OnConnectionResumed, but return_code is not looked at.
OnConnectionResumedAnyCode(i, return_code, session_present) ==
  /\ pc # "exited"
  /\ loopThread = "idle"
  /\ Holds(i)
  /\ attempts[i].st = "interrupted"
  /\ attempts' = SetAttempt(i, "live", attempts[i].res, attempts[i].why)
  /\ IF ~session_present
     THEN resubscribing' = Append(resubscribing, HeldBy(i))
     ELSE UNCHANGED resubscribing
  /\ resumes' = resumes + 1
  /\ resumed' = <<return_code, session_present>>
  /\ UNCHANGED <<mainVars, held, subscribeCalls, sigints, fatalCalls>>
  /\ UNCHANGED ioVars

\* As OnConnectionResumed, but the handler calls resubscribe_future.result()
\* and so keeps the event-loop thread until the future is done.
OnConnectionResumedWaits(i, return_code, session_present) ==
  /\ pc # "exited"
  /\ loopThread = "idle"
  /\ Holds(i)
  /\ attempts[i].st = "interrupted"
  /\ attempts' = SetAttempt(i, "live", attempts[i].res, attempts[i].why)
  /\ IF return_code = "ACCEPTED" /\ ~session_present
     THEN /\ resubscribing' = Append(resubscribing, HeldBy(i))
          /\ loopThread' = "blocked"
     ELSE UNCHANGED <<resubscribing, loopThread>>
  /\ resumes' = resumes + 1
  /\ resumed' = <<return_code, session_present>>
  /\ UNCHANGED <<mainVars, held, subscribeCalls, sigints, fatalCalls>>
  /\ UNCHANGED <<certs, discoveries, builds, subscribed, disconnectCalls, interruptLog>>

\* on_connection_resumed, on the event-loop thread: when it resubscribes it
\* adds on_resubscribe_complete as the done-callback of the future and
\* returns.
OnConnectionResumed(i, return_code, session_present) ==
  /\ pc # "exited"
  /\ loopThread = "idle"
  /\ Holds(i)
  /\ attempts[i].st = "interrupted"
  /\ attempts' = SetAttempt(i, "live", attempts[i].res, attempts[i].why)
  /\ IF return_code = "ACCEPTED" /\ ~session_present
     THEN resubscribing' = Append(resubscribing, HeldBy(i))
     ELSE UNCHANGED resubscribing
  /\ resumes' = resumes + 1
  /\ resumed' = <<return_code, session_present>>
  /\ UNCHANGED <<mainVars, held, subscribeCalls, sigints, fatalCalls>>
  /\ UNCHANGED ioVars

\* The loop of on_resubscribe_complete over resubscribe_results['topics']:
\* the number of sys.exit calls it makes.  sys.exit raises, so the loop
\* ends at the first pair whose qos is None.
\* As SysExitCalls, but the loop goes on after sys.exit.
RECURSIVE SysExitCallsPerTopic(_)
SysExitCallsPerTopic(topics) ==
  IF topics = <<>> THEN 0
  ELSE (IF Head(topics) = "none" THEN 1 ELSE 0) + SysExitCallsPerTopic(Tail(topics))

RECURSIVE SysExitCalls(_)
SysExitCalls(topics) ==
  IF topics = <<>> THEN 0
  ELSE IF Head(topics) = "none" THEN 1
  ELSE SysExitCalls(Tail(topics))

Acks == UNION {[1..n -> QosValues] : n \in 0..MaxAck}

\* on_resubscribe_complete, the done-callback of a resubscribe future, on
\* the event-loop thread: SystemExit raised there does not reach the main
\* thread.
OnResubscribeComplete(topics) ==
  /\ pc # "exited"
  /\ loopThread = "idle"
  /\ resubscribing # <<>>
  /\ resubscribing' = Tail(resubscribing)
  /\ fatalCalls' = SysExitCalls(topics)
  /\ UNCHANGED <<mainVars, attempts, subVars, sigints>>
  /\ UNCHANGED ioVars

Next ==
  \/ ArgCheck
  \/ Discover
  \/ LoopNext
  \/ BuildAndConnect
  \/ AwaitResult
  \/ Return
  \/ Subscribe
  \/ SubscribeResult
  \/ Sigint
  \/ \E i \in 1..Len(attempts) : OnConnectionInterrupted(i)
  \/ \E i \in 1..Len(attempts), rc \in ReturnCodes, sp \in BOOLEAN :
       OnConnectionResumed(i, rc, sp)
  \/ \E topics \in Acks : OnResubscribeComplete(topics)

Spec == Init /\ [][Next]_vars

TypeOK ==
  /\ pc \in {"arg_check", "discover", "loop", "try", "connecting", "connected",
             "returned", "subscribing", "wait", "exited"}
  /\ exitCode \subseteq {ExitOk, ExitError}
  /\ mqtt_connection \in 0..Len(attempts)
  /\ held \subseteq {Topic}


\* The main thread takes its next step when it can; a connect the transport
\* answers lets connect_future.result() go on.  Signals and the connection's
\* interruptions are under no obligation to happen.
MainStep ==
  \/ ArgCheck
  \/ Discover
  \/ LoopNext
  \/ BuildAndConnect
  \/ AwaitResult
  \/ Return
  \/ Subscribe
  \/ SubscribeResult

FairSpec == Spec /\ WF_vars(MainStep)

\* ----------------------------------------------------------------- claims
Tried == [i \in 1..Len(attempts) |-> attempts[i].cand]
NCand == Len(Candidates(resp))

\* A candidate can succeed: the transport completes its connect and its
\* group lists a certificate authority.
CanSucceed(c) == BehaviourOf(resp, c) = "ok" /\ resp[c[1]].cas > 0

OnlySuccessAt(k) ==
  LET cands == Candidates(resp) IN
    /\ k \in 1..Len(cands)
    /\ \A j \in 1..Len(cands) : CanSucceed(cands[j]) <=> j = k

\* No attempt was ended by the exception of the interrupt handler.
HandlerFree == \A i \in 1..Len(attempts) : attempts[i].why # "handler"

\* Failure lines printed by the except clause: one per failed iteration.
FailuresPrinted == Cardinality({i \in 1..Len(attempts) : attempts[i].res = "failed"})

LexLess(a, b) ==
  \/ a[1] < b[1]
  \/ a[1] = b[1] /\ a[2] < b[2]
  \/ a[1] = b[1] /\ a[2] = b[2] /\ a[3] < b[3]

\* C1: when discover_gg_host has returned a connection, it is the connection
\* of the last candidate attempted, that candidate is one that succeeds, the
\* candidates attempted are exactly the candidates up to it in discovery
\* order, each once, and every attempt before it failed; and when exactly one
\* candidate, at position k, succeeds and the loops have ended (no attempt
\* having been ended by the interrupt handler), the connection returned is
\* that of candidate k.
C1_FirstSuccessWins ==
  /\ session # None =>
       /\ session = Cur
       /\ Tried = SubSeq(Candidates(resp), 1, Cur)
       /\ CanSucceed(attempts[Cur].cand)
       /\ attempts[Cur].res = "ok"
       /\ \A j \in 1..(Cur - 1) : attempts[j].res = "failed"
  /\ ((session # None \/ exitArg = AllFailed) /\ HandlerFree) =>
       \A k \in 1..NCand : OnlySuccessAt(k) => session = k

C1_Witness ==
  /\ session = 2
  /\ NCand = 3
  /\ OnlySuccessAt(2)
  /\ HandlerFree
  /\ attempts[1].why = "transport"

\* C2 as stated: when the loops end with every candidate failed, each of the
\* N candidates was attempted once, no connection is returned, and the exit
\* carries a list of N failure reasons.
C2_CarriesFailureList ==
  exitArg.msg = AllFailed.msg =>
    /\ Tried = Candidates(resp)
    /\ session = None
    /\ Len(exitArg.failures) = NCand

\* C2 amended: when the loops end with every candidate failed, each of the
\* N candidates was attempted once, in order, every attempt failed and printed
\* its failure (N lines), no connection is returned, and the process exits
\* with status 1 on a message that carries no failure reasons.
C2_AllFailedExit ==
  exitArg.msg = AllFailed.msg =>
    /\ Tried = Candidates(resp)
    /\ \A i \in 1..Len(attempts) : attempts[i].res = "failed"
    /\ FailuresPrinted = NCand
    /\ session = None
    /\ mqtt_connection = None
    /\ exitArg.failures = <<>>
    /\ exitCode = {ExitError}

C2_Witness ==
  /\ exitArg = AllFailed
  /\ NCand = 2
  /\ attempts[1].why = "transport"
  /\ attempts[2].why = "builder"

\* C3: a response without any connectivity info leads to no attempt and no
\* connection, and the first step of the loops on it is the exit on
\* 'All connection attempts failed', which carries no failure reason.
C3_EmptyFailsAtOnce ==
  /\ [](Candidates(resp) = <<>> => attempts = <<>> /\ session = None)
  /\ [][(pc = "loop" /\ Candidates(resp) = <<>> /\ LoopNext)
          => (pc' = "exited" /\ exitArg' = AllFailed /\ exitArg'.failures = <<>>
              /\ exitCode' = {ExitError} /\ attempts' = <<>>)]_vars

C3_Witness ==
  /\ exitArg = AllFailed
  /\ attempts = <<>>
  /\ Len(resp) = 2
  /\ Len(resp[1].cores) = 2

\* C4: of any two attempts the earlier one is on the candidate that comes
\* first in the response (group, then core, then connectivity info), so no
\* candidate is attempted twice.
C4_DiscoveryOrder ==
  \A i, j \in 1..Len(attempts) :
    i < j => LexLess(attempts[i].cand, attempts[j].cand)

C4_Witness ==
  /\ Len(attempts) = 3
  /\ attempts[1].cand = <<1, 1, 1>>
  /\ attempts[2].cand = <<1, 1, 2>>
  /\ attempts[3].cand = <<1, 2, 1>>

\* C5 as stated: at most one connection is live, at most one connect is
\* unanswered, and no attempt is begun while the connect of an earlier
\* attempt is unanswered.
C5_OneAtATime ==
  /\ Cardinality({i \in 1..Len(attempts) : attempts[i].st = "live"}) <= 1
  /\ Cardinality({i \in 1..Len(attempts) : attempts[i].st \in {"pending", "silent"}}) <= 1
  /\ \A i \in 1..(Cur - 1) : attempts[i].st \notin {"pending", "silent"}

ConnectEnded == session # None \/ pc = "exited"

C8_ReissuesWheneverLost ==
  [][resumes' # resumes =>
       \A i \in 1..Len(attempts), rc \in ReturnCodes :
         OnConnectionResumed(i, rc, FALSE)
           => resubscribing' = Append(resubscribing, HeldBy(i))]_vars

\* C8 amended: a resumed notification with return code ACCEPTED and
\* session_present = False makes one resubscribe that re-issues exactly the
\* M subscriptions the connection holds, each once.
C8_ReissuesWhenAccepted ==
  [][resumes' # resumes =>
       \A i \in 1..Len(attempts) :
         OnConnectionResumed(i, "ACCEPTED", FALSE)
           => /\ Len(resubscribing') = Len(resubscribing) + 1
              /\ resubscribing'[Len(resubscribing')] = (IF i = mqtt_connection THEN held ELSE {})
              /\ held' = held]_vars

C8_Witness ==
  /\ resumed = <<"ACCEPTED", FALSE>>
  /\ held = {Topic}
  /\ resubscribing = <<{Topic}>>

\* C9: on_resubscribe_complete calls sys.exit once when the result has a
\* topic without a granted qos, however many there are, and not at all when
\* every topic has one.
C9_FatalOnce ==
  [][Len(resubscribing') < Len(resubscribing) =>
       \A topics \in Acks :
         OnResubscribeComplete(topics)
           => fatalCalls' = (IF \E n \in 1..Len(topics) : topics[n] = "none" THEN 1 ELSE 0)]_vars

C9_Witness ==
  /\ fatalCalls = 1
  /\ resubscribing = <<>>
  /\ resumes = 1

\* C10 as stated: exhausted candidates end the process with a non-zero
\* status, and so does a rejected resubscription.
C10_FatalEndsProcess ==
  /\ exitArg = AllFailed => exitCode = {ExitError}
  /\ fatalCalls > 0 => (pc = "exited" /\ exitCode = {ExitError})

\* C11 as stated: when an interrupt signal arrives while the connection
\* discover_gg_host returned is live and the handler ends the process,
\* disconnect has been called on that connection.
C11_DisconnectBeforeExit ==
  [][(sigints' # sigints /\ session # None /\ attempts[session].st = "live")
       => (pc' = "exited" => session \in disconnectCalls')]_vars

\* C12 as stated: an interrupt signal, whatever the main thread is doing,
\* ends the process with exit status 0.
C12_SignalExitsZero ==
  [][sigints' # sigints => (pc' = "exited" /\ exitCode' = {ExitOk})]_vars

\* C13: while one of the three files is missing from ./certs there is no
\* discovery request, no builder call, no attempt and no connection, the
\* main thread gets no further than arg_check, the process ends with a
\* non-zero status, and arg_check ends it on the "not found" exception of
\* the first lookup that fails.
C13_MissingCertFailsFirst ==
  /\ []((\E n \in 1..Len(Lookups) : Lookups[n] \notin certs) =>
          /\ discoveries = 0
          /\ builds = <<>>
          /\ attempts = <<>>
          /\ session = None
          /\ pc \in {"arg_check", "exited"}
          /\ pc = "exited" => exitCode = {ExitError})
  /\ [][(pc = "arg_check" /\ certs # CertNames /\ ArgCheck)
          => (pc' = "exited" /\ exitArg' = NotFound(FirstMissing))]_vars

C13_Witness ==
  /\ pc = "exited"
  /\ certs = {"private.key", "cert.pem"}
  /\ exitArg = NotFound("AmazonRootCA1.pem")
  /\ discoveries = 0

\* C14: a step in which the current attempt fails (the connect failed, the
\* builder arguments raised) takes the main thread back to the for
\* statements with no exit and no connection returned, and the step the main
\* thread takes from there, while a candidate remains, begins the attempt
\* on the next candidate in order.
C14_FailureNeverEscapes ==
  /\ [][(Cur > 0 /\ Len(attempts') = Cur /\ attempts[Cur].res # "failed"
           /\ attempts'[Cur].res = "failed")
          => (pc' = "loop" /\ exitCode' = {} /\ session' = None)]_vars
  /\ [][(pc = "loop" /\ pc' # "loop" /\ sigints' = sigints /\ Cur < NCand)
          => /\ pc' = "try"
             /\ Len(attempts') = Cur + 1
             /\ attempts'[Cur + 1].cand = Candidates(resp)[Cur + 1]
             /\ attempts'[Cur + 1].res = "waiting"]_vars

C14_Witness ==
  /\ Len(attempts) = 2
  /\ attempts[1].why = "transport"
  /\ attempts[2].why = "builder"
  /\ attempts[2].cand = <<2, 1, 1>>
  /\ pc = "loop"
  /\ sigints = 0

\* C15: at most one discovery request is made in a run, and when it fails
\* the process has ended with a non-zero status with no builder call, no
\* attempt, no connection returned and no subscribe call.
C15_DiscoveryFailureIsFatal ==
  /\ discoveries <= 1
  /\ exitArg = DiscoveryFailed =>
       /\ pc = "exited"
       /\ exitCode = {ExitError}
       /\ discoveries = 1
       /\ builds = <<>>
       /\ attempts = <<>>
       /\ session = None
       /\ mqtt_connection = None
       /\ subscribeCalls = 0
       /\ subscribed = <<>>

C15_Witness ==
  /\ exitArg = DiscoveryFailed
  /\ certs = CertNames
  /\ sigints = 0

\* C16 as stated: the step in which a live connection is reported
\* interrupted logs the event, the handler completing normally, and leaves
\* the connection handles and the held subscriptions as they are, with no
\* discovery request, no builder call and no resubscribe.
C16_InterruptionOnlyLogs ==
  [][(Cur > 0 /\ Len(attempts') = Cur /\ attempts[Cur].st = "live"
       /\ attempts'[Cur].st = "interrupted")
      => /\ interruptLog' = "logged"
         /\ session' = session
         /\ mqtt_connection' = mqtt_connection
         /\ held' = held
         /\ discoveries' = discoveries
         /\ builds' = builds
         /\ subscribed' = subscribed
         /\ resubscribing' = resubscribing]_vars

\* C17: on_connection_resumed never leaves the event-loop thread blocked:
\* the step of a resumed notification adds at most one pending resubscribe
\* and evaluates no result, a result is evaluated in a step that is not a
\* resumed notification, and while a resubscribe is pending and the process
\* runs, on_resubscribe_complete can be delivered.
C17_ResumedDoesNotWait ==
  /\ [](loopThread = "idle")
  /\ []((resubscribing # <<>> /\ pc # "exited")
          => ENABLED (\E topics \in Acks : OnResubscribeComplete(topics)))
  /\ [][resumes' # resumes
          => /\ fatalCalls' = fatalCalls
             /\ Len(resubscribing') \in {Len(resubscribing), Len(resubscribing) + 1}
             /\ SubSeq(resubscribing', 1, Len(resubscribing)) = resubscribing]_vars
  /\ [][Len(resubscribing') < Len(resubscribing) => resumes' = resumes]_vars

C17_Witness ==
  /\ resumed = <<"ACCEPTED", FALSE>>
  /\ resubscribing = <<{Topic}>>
  /\ fatalCalls = 0
  /\ loopThread = "idle"
  /\ pc = "wait"

\* C18: at most one subscribe call is made; it is made on the connection
\* discover_gg_host returned, whose connect completed, for "alert/#" at
\* QoS.AT_MOST_ONCE; it has been made once the main thread waits on its
\* result or sleeps; none is made while no connection is returned, and none
\* when the loops end on 'All connection attempts failed'.
C18_SubscribesOnceOnSession ==
  /\ subscribeCalls <= 1
  /\ Len(subscribed) = subscribeCalls
  /\ \A n \in 1..Len(subscribed) :
       /\ session # None
       /\ attempts[session].res = "ok"
       /\ mqtt_connection = session
       /\ subscribed[n] = [on |-> session, topic |-> "alert/#", qos |-> "AT_MOST_ONCE"]
  /\ pc \in {"subscribing", "wait"} => subscribeCalls = 1
  /\ session = None => subscribeCalls = 0
  /\ exitArg = AllFailed => (subscribeCalls = 0 /\ held = {})

C18_Witness ==
  /\ pc = "wait"
  /\ session = 2
  /\ subscribed = <<[on |-> 2, topic |-> "alert/#", qos |-> "AT_MOST_ONCE"]>>
  /\ subscribeCalls = 1

\* C19: a resumed notification whose return code is not ACCEPTED makes no
\* resubscribe and no subscribe, with session_present False as with True,
\* and a step that adds a resubscribe is a resumed notification with
\* return code ACCEPTED.
C19_NoResubscribeUnlessAccepted ==
  /\ [][resumes' # resumes =>
          \A i \in 1..Len(attempts), rc \in ReturnCodes \ {"ACCEPTED"}, sp \in BOOLEAN :
            OnConnectionResumed(i, rc, sp)
              => /\ resubscribing' = resubscribing
                 /\ held' = held
                 /\ subscribed' = subscribed
                 /\ subscribeCalls' = subscribeCalls]_vars
  /\ [][Len(resubscribing') > Len(resubscribing) => resumed'[1] = "ACCEPTED"]_vars

C19_Witness ==
  /\ resumed = <<"REFUSED", FALSE>>
  /\ mqtt_connection = Cur
  /\ held = {Topic}
  /\ resubscribing = <<>>

\* C20: every builder call is for one attempt and is given the first
\* certificate authority of the group of that attempt's candidate, and the
\* certificate, key and client id arg_check has set, the same in every
\* call; an attempt that has gone past the builder has such a call; an
\* attempt on a candidate of a group without a certificate authority has
\* none, starts no connect and has failed once the loops have moved on; and
\* the step that fails it goes back to the for statements without an exit.
C20_OwnGroupTrustAnchor ==
  /\ [](/\ \A n \in 1..Len(builds) :
            /\ builds[n].attempt \in 1..Len(attempts)
            /\ builds[n].ca = <<attempts[builds[n].attempt].cand[1], 1>>
            /\ resp[builds[n].ca[1]].cas >= builds[n].ca[2]
            /\ builds[n].cert_filepath = "cert.pem"
            /\ builds[n].pri_key_filepath = "private.key"
            /\ builds[n].client_id = builds[1].client_id
            /\ \A m \in 1..(n - 1) : builds[m].attempt < builds[n].attempt
        /\ \A i \in 1..Len(attempts) :
            /\ attempts[i].st # "none" => \E n \in 1..Len(builds) : builds[n].attempt = i
            /\ resp[attempts[i].cand[1]].cas = 0 =>
                 /\ \A n \in 1..Len(builds) : builds[n].attempt # i
                 /\ attempts[i].st = "none"
                 /\ i < Cur => attempts[i].res = "failed")
  /\ [][(pc = "try" /\ pc' # "try" /\ sigints' = sigints /\ resp[pos[1]].cas = 0)
          => (pc' = "loop" /\ attempts'[Cur].why = "builder" /\ exitCode' = {}
              /\ builds' = builds)]_vars

C20_Witness ==
  /\ Len(attempts) = 2
  /\ attempts[1].why = "builder"
  /\ attempts[2].st = "live"
  /\ Len(builds) = 1
  /\ builds[1].attempt = 2
  /\ builds[1].ca = <<2, 1>>

====
